---- MODULE Spec2Model ----
(***************************************************************************)
(* Model of baseclasses/models.py: the abstract base classes               *)
(* DateAuditModel, BaseContentModel(WithImages), BaseHierarchyModel, their *)
(* managers, their pre_save handlers and next_or_prev_in_order.            *)
(*                                                                         *)
(* Representation.  Python's None is NONE (0); primary keys, instants and  *)
(* dates are positive integers.  A table row and an in-memory instance are *)
(* records; db is the sequence of stored rows and a row's pk is its index  *)
(* (an auto-increment key, no deletes).  A reference held by an instance   *)
(* (instance.parent) is <<>> for None and <<k>> for an object whose pk is  *)
(* k (k = NONE for an object that was never saved).                        *)
(***************************************************************************)
EXTENDS Integers, Sequences, FiniteSets, TLC

VARIABLES now, db, image_db, ret

vars == <<now, db, image_db, ret>>

NONE == 0

\* ------------------------------------------------------------------ bounds
MaxTime == 3
TicksPerDay == 2
MaxCategories == 3

\* --------------------------------------------------------- class hierarchy
\* The concrete record types of the application and the base classes of
\* models.py each of them derives from.
Mro(model) ==
    CASE model = "Note"     -> {"Note", "DateAuditModel"}
      [] model = "Page"     -> {"Page", "BaseContentModel", "DateAuditModel"}
      [] model = "Article"  -> {"Article", "BaseContentModelWithImages",
                                "BaseContentModel", "DateAuditModel"}
      [] model = "Category" -> {"Category", "BaseHierarchyModel"}

isinstance(instance, cls) == cls \in Mro(instance.model)

\* datetime.date of an instant (what a DateField keeps of a datetime).
Date(t) == ((t - 1) \div TicksPerDay) + 1

MaxDate == Date(MaxTime)

\* The stored pks of one model.
Objects(rows, model) == {k \in 1..Len(rows) : rows[k].model = model}

\* ------------------------------------------------------ pre_save handlers
date_set_always(instance, t1, t2) ==
    IF isinstance(instance, "DateAuditModel")
    THEN [instance EXCEPT !.creation_date = t1, !.last_updated = t2]
    ELSE instance

\* date_set: t1 and t2 are the two readings of datetime.datetime.now().
date_set(instance, t1, t2) ==
    IF isinstance(instance, "DateAuditModel")
    THEN [instance EXCEPT
            !.creation_date = IF instance.creation_date = NONE THEN t1 ELSE @,
            !.last_updated = t2]
    ELSE instance

\* getattr(instance, 'publication_date', None)
getattr_publication_date(instance) ==
    IF "publication_date" \in DOMAIN instance THEN instance.publication_date ELSE NONE

set_publication_date(instance, today) ==
    IF getattr_publication_date(instance) = NONE
    THEN [f \in (DOMAIN instance) \cup {"publication_date"} |->
             IF f = "publication_date" THEN today ELSE instance[f]]
    ELSE instance

set_sort_order(instance) ==
    IF isinstance(instance, "BaseSortedModel")
    THEN [instance EXCEPT !.sort_order = IF @ = NONE THEN 0 ELSE @]
    ELSE instance

\* instance.children.all().count()
children_count(rows, instance) ==
    Cardinality({k \in Objects(rows, instance.model) : rows[k].parent = instance.pk})

\* Model.__eq__ of a held reference and the instance: same pk.
parent_is_instance(instance) ==
    instance.parent # <<>> /\ instance.parent[1] = instance.pk

check_tree_no_children_test(rows, instance) ==
    IF isinstance(instance, "BaseHierarchyModel")
    THEN IF parent_is_instance(instance)
         THEN [instance EXCEPT !.parent = <<>>]
         ELSE instance
    ELSE instance

check_tree_no_self_test(rows, instance) ==
    IF isinstance(instance, "BaseHierarchyModel")
    THEN IF instance.pk # NONE /\ children_count(rows, instance) # 0
         THEN [instance EXCEPT !.parent = <<>>]
         ELSE instance
    ELSE instance

check_tree(rows, instance) ==
    IF isinstance(instance, "BaseHierarchyModel")
    THEN IF \/ (instance.pk # NONE /\ children_count(rows, instance) # 0)
            \/ parent_is_instance(instance)
         THEN [instance EXCEPT !.parent = <<>>]
         ELSE instance
    ELSE instance

\* The receivers connected to pre_save, in connection order, each with the
\* sender it was connected for (NoSender: connected for every sender).
NoSender == "*"

Receivers ==
    << [fn |-> "date_set", sender |-> NoSender],
       [fn |-> "set_publication_date", sender |-> "BaseContentModel"],
       [fn |-> "set_sort_order", sender |-> NoSender],
       [fn |-> "check_tree", sender |-> NoSender] >>

\* Signal.send calls the receivers connected for no sender or for this very
\* sender class; Model.save sends pre_save with sender = the instance's class.
Connected(receiver, sender) ==
    receiver.sender = NoSender \/ receiver.sender = sender

Call(fn, rows, instance, clk) ==
    CASE fn = "date_set"             -> date_set(instance, clk[1], clk[2])
      [] fn = "set_publication_date" -> set_publication_date(instance, Date(clk[3]))
      [] fn = "set_sort_order"       -> set_sort_order(instance)
      [] fn = "check_tree"           -> check_tree(rows, instance)

RECURSIVE send_from(_, _, _, _, _)
send_from(i, sender, rows, instance, clk) ==
    IF i > Len(Receivers) THEN instance
    ELSE send_from(i + 1, sender, rows,
                   IF Connected(Receivers[i], sender)
                   THEN Call(Receivers[i].fn, rows, instance, clk)
                   ELSE instance,
                   clk)

pre_save_send(rows, instance, clk) ==
    send_from(1, instance.model, rows, instance, clk)

\* The clock readings of one save: datetime.now() twice in date_set, then
\* date.today() in set_publication_date; the clock never runs backwards.
ClockReads ==
    {c \in (now..MaxTime) \X (now..MaxTime) \X (now..MaxTime) :
        c[1] <= c[2] /\ c[2] <= c[3]}

\* ---------------------------------------------------------- the hierarchy
\* The row written for a hierarchical instance: parent_id is the pk of the
\* referenced object.
CategoryRow(instance) ==
    [model |-> instance.model,
     parent |-> IF instance.parent = <<>> THEN NONE ELSE instance.parent[1]]

\* Python's recursion limit, in frames of get_hierarchy.
RecursionLimit == MaxCategories + 2

\* get_hierarchy on the stored rows: <<TRUE, list>> when the walk returns,
\* <<FALSE, <<>>>> when it exceeds the recursion limit (RuntimeError).
RECURSIVE get_hierarchy_walk(_, _, _, _)
get_hierarchy_keep_flag(rows, k, include_self, depth) ==
    IF depth > RecursionLimit THEN <<FALSE, <<>>>>
    ELSE IF rows[k].parent # NONE
         THEN LET up == get_hierarchy_walk(rows, rows[k].parent, include_self, depth + 1)
              IN  IF up[1]
                  THEN <<TRUE, up[2] \o (IF include_self THEN <<k>> ELSE <<>>)>>
                  ELSE up
         ELSE <<TRUE, IF include_self THEN <<k>> ELSE <<>>>>

get_hierarchy_walk(rows, k, include_self, depth) ==
    IF depth > RecursionLimit THEN <<FALSE, <<>>>>
    ELSE IF rows[k].parent # NONE
         THEN LET up == get_hierarchy_walk(rows, rows[k].parent, TRUE, depth + 1)
              IN  IF up[1]
                  THEN <<TRUE, up[2] \o (IF include_self THEN <<k>> ELSE <<>>)>>
                  ELSE up
         ELSE <<TRUE, IF include_self THEN <<k>> ELSE <<>>>>

get_hierarchy(rows, k, include_self) == get_hierarchy_walk(rows, k, include_self, 1)

\* ------------------------------------------------------------ the actions
Init ==
    /\ now = 1
    /\ db = <<>>
    /\ image_db = <<>>
    /\ ret = [op |-> "init"]

\* Time passes.
Tick ==
    /\ now < MaxTime
    /\ now' = now + 1
    /\ UNCHANGED <<db, image_db, ret>>

\* Model.save(): pre_save is sent, then the row is inserted (no pk) or
\* updated (pk set).
Store(rows, pk, row) ==
    IF pk = NONE THEN Append(rows, row) ELSE [rows EXCEPT ![pk] = row]

\* category.parent = <given>; category.save(), for a new or a stored category.
SaveCategory ==
    \E pk \in {NONE} \cup Objects(db, "Category") :
    \E given \in {<<>>, <<pk>>} \cup {<<k>> : k \in Objects(db, "Category")} :
    \E clk \in ClockReads :
        /\ pk = NONE => Len(db) < MaxCategories
        /\ LET instance == [model |-> "Category", pk |-> pk, parent |-> given]
               saved == pre_save_send(db, instance, clk)
               had == IF pk = NONE THEN 0 ELSE children_count(db, instance)
           IN  /\ db' = Store(db, pk, CategoryRow(saved))
               /\ ret' = [op |-> "save", pk |-> IF pk = NONE THEN Len(db) + 1 ELSE pk,
                          new |-> (pk = NONE), given |-> given, children |-> had]
        /\ now' = clk[3]
        /\ UNCHANGED image_db

\* category.get_hierarchy(include_self) of a stored category.
CallGetHierarchy ==
    \E k \in Objects(db, "Category"), include_self \in BOOLEAN :
        /\ LET r == get_hierarchy(db, k, include_self)
           IN  ret' = [op |-> "get_hierarchy", self |-> k, include_self |-> include_self,
                       returned |-> r[1], val |-> r[2]]
        /\ UNCHANGED <<now, db, image_db>>

NextTree == Tick \/ SaveCategory \/ CallGetHierarchy

SpecTree == Init /\ [][NextTree]_vars

\* ------------------------------------------------- audited / content rows
\* The row written for an instance of an audited type: its fields but pk.
ContentRow(instance) == [f \in (DOMAIN instance) \ {"pk"} |-> instance[f]]

\* The instance loaded from row k: its fields, and pk.
Loaded(rows, k) ==
    [f \in (DOMAIN rows[k]) \cup {"pk"} |-> IF f = "pk" THEN k ELSE rows[k][f]]

\* Note(): a type derived from DateAuditModel alone.
NewNote ==
    [model |-> "Note", pk |-> NONE, creation_date |-> NONE, last_updated |-> NONE]

\* Page(...) / Article(...): publication_date, is_live and is_featured as given
\* (publication_date defaults to date.today, and may be given as None).
NewContent(model, pub, live, featured) ==
    [model |-> model, pk |-> NONE, creation_date |-> NONE, last_updated |-> NONE,
     publication_date |-> pub, is_live |-> live, is_featured |-> featured]

\* publication_date is a DateField without null=True: the column is NOT NULL
\* and the INSERT or UPDATE of a null publication date raises IntegrityError.
IntegrityError(instance) ==
    isinstance(instance, "BaseContentModel") /\ instance.publication_date = NONE

\* instance.save() of an audited instance, the clock read as clk.
SaveAudited(instance, clk) ==
    LET saved == pre_save_send(db, instance, clk)
        raised == IntegrityError(saved)
        new == (instance.pk = NONE)
    IN  /\ db' = IF raised THEN db ELSE Store(db, instance.pk, ContentRow(saved))
        /\ ret' = [op |-> "save", model |-> instance.model, new |-> new,
                   pk |-> IF new THEN (IF raised THEN NONE ELSE Len(db) + 1)
                          ELSE instance.pk,
                   begin |-> now, end |-> clk[3],
                   old_creation_date |-> instance.creation_date,
                   old_last_updated |-> instance.last_updated,
                   given_publication_date |-> getattr_publication_date(instance),
                   instance |-> saved, raised |-> raised]
        /\ now' = clk[3]
        /\ UNCHANGED image_db

\* ------------------------------------------ audit: saves and resaves
MaxAuditRecords == 2

AuditSaveNote ==
    \E clk \in ClockReads :
        \/ /\ Len(db) < MaxAuditRecords
           /\ SaveAudited(NewNote, clk)
        \/ \E k \in Objects(db, "Note") : SaveAudited(Loaded(db, k), clk)

\* is_live and is_featured keep their defaults here; publication_date is
\* given as a date or as None.  A new instance may be one whose earlier save
\* raised: it then holds the creation_date that attempt set.
AuditSaveArticle ==
    \E clk \in ClockReads, pub \in {NONE} \cup (1..MaxDate) :
        \/ /\ Len(db) < MaxAuditRecords
           /\ \E created \in {NONE} \cup (IF ret.op = "save" /\ ret.raised /\ ret.new
                                          THEN {ret.instance.creation_date} ELSE {}) :
                 SaveAudited([NewContent("Article", pub, TRUE, FALSE)
                                 EXCEPT !.creation_date = created], clk)
        \/ \E k \in Objects(db, "Article") :
              SaveAudited([Loaded(db, k) EXCEPT !.publication_date = pub], clk)

NextAudit == Tick \/ AuditSaveNote \/ AuditSaveArticle

SpecAudit == Init /\ [][NextAudit]_vars

\* ------------------------------------------------------------- query sets
\* A query set is the sequence of the pks its WHERE clause and joins yield
\* (one entry per joined row, in no significant order); its ORDER BY is the
\* Meta.ordering of the model.  A manager is named by its class.
Range(s) == {s[i] : i \in 1..Len(s)}

\* Meta.ordering of a concrete model, each entry split into its tokens: a
\* leading "-" and the attribute path.
Ordering(model) ==
    IF "BaseContentModel" \in Mro(model)
    THEN << <<"-", "publication_date">>, <<"-", "creation_date">> >>
    ELSE IF "DateAuditModel" \in Mro(model)
         THEN << <<"-", "creation_date">> >>
         ELSE << >>

\* The class of the manager a model holds under a name.
ManagerClass(model, name) ==
    CASE name = "objects"  -> "Manager"
      [] name = "live"     -> "LiveManager"
      [] name = "featured" -> IF "BaseContentModelWithImages" \in Mro(model)
                              THEN "FeaturedManagerWithImages"
                              ELSE "FeaturedManager"

\* models.Manager.get_query_set(): every row of the model's table.
RECURSIVE AllRows(_, _, _)
AllRows(rows, model, k) ==
    IF k > Len(rows) THEN <<>>
    ELSE (IF rows[k].model = model THEN <<k>> ELSE <<>>) \o AllRows(rows, model, k + 1)

\* The rows of qs joined to the image table on image__isnull=False: one
\* joined row per related image.
RECURSIVE ImagesOf(_, _, _)
ImagesOf(imgs, k, i) ==
    IF i > Len(imgs) THEN <<>>
    ELSE (IF imgs[i] = k THEN <<k>> ELSE <<>>) \o ImagesOf(imgs, k, i + 1)

RECURSIVE JoinImages(_, _)
JoinImages(qs, imgs) ==
    IF qs = <<>> THEN <<>>
    ELSE ImagesOf(imgs, Head(qs), 1) \o JoinImages(Tail(qs), imgs)

\* SELECT DISTINCT
RECURSIVE distinct(_)
distinct(qs) ==
    IF qs = <<>> THEN <<>>
    ELSE LET rest == distinct(SubSeq(qs, 1, Len(qs) - 1))
             last == qs[Len(qs)]
         IN  IF last \in Range(rest) THEN rest ELSE Append(rest, last)

\* publication_date__lte=datetime.datetime.now(): the DateField lookup keeps
\* the date of the datetime it is given.
LiveManager_filter_strictly_before(rows, qs, t) ==
    LET Test(k) == rows[k].is_live /\ rows[k].publication_date < Date(t)
    IN  SelectSeq(qs, Test)

LiveManager_filter(rows, qs, t) ==
    LET Test(k) == rows[k].is_live /\ rows[k].publication_date <= Date(t)
    IN  SelectSeq(qs, Test)

FeaturedManager_filter(rows, qs) ==
    LET Test(k) == rows[k].is_featured
    IN  SelectSeq(qs, Test)

FeaturedManagerWithImages_filter(qs, imgs) == distinct(JoinImages(qs, imgs))

\* get_query_set() of a manager of class cls, evaluated at instant t; each
\* class filters the query set of its base class.
RECURSIVE get_query_set(_, _, _, _, _)
get_query_set(cls, rows, imgs, model, t) ==
    CASE cls = "Manager" -> AllRows(rows, model, 1)
      [] cls = "LiveManager" ->
            LiveManager_filter(rows, get_query_set("Manager", rows, imgs, model, t), t)
      [] cls = "FeaturedManager" ->
            FeaturedManager_filter(rows, get_query_set("LiveManager", rows, imgs, model, t))
      [] cls = "FeaturedManagerWithImages" ->
            FeaturedManagerWithImages_filter(
                get_query_set("FeaturedManager", rows, imgs, model, t), imgs)

\* ORDER BY: row a sorts strictly before row b under the entries i.. of the
\* ordering (each direction flipped when the query set is reversed); rows
\* equal on every entry are in no defined order.
RECURSIVE SortsBefore(_, _, _, _, _, _)
SortsBefore(rows, a, b, ordering, i, reversed) ==
    IF i > Len(ordering) THEN FALSE
    ELSE LET descending == (Head(ordering[i]) = "-")
             field == IF descending THEN Tail(ordering[i])[1] ELSE ordering[i][1]
             va == rows[a][field]
             vb == rows[b][field]
         IN  IF va = vb THEN SortsBefore(rows, a, b, ordering, i + 1, reversed)
             ELSE IF descending # reversed THEN va > vb ELSE va < vb

\* qs[0]: the rows the database may return first, or {} (IndexError).
First(rows, model, qs, reversed) ==
    {k \in Range(qs) :
        ~ \E j \in Range(qs) : SortsBefore(rows, j, k, Ordering(model), 1, reversed)}

\* --------------------------------------------------- next_or_prev_in_order
\* get_model_attr(instance, attr), attr split at "__".
RECURSIVE get_model_attr(_, _)
get_model_attr(instance, path) ==
    IF path = <<>> THEN instance
    ELSE get_model_attr(instance[Head(path)], Tail(path))

\* The Q objects built by the loop over ordering + ['pk']: entry i gives
\* Q(<every earlier field> = <the instance's value>, <field>__<lookup> = <value>).
q_list(instance, ordering, lookup) ==
    LET fields == ordering \o << <<"pk">> >>
        Stripped(i) == IF Head(fields[i]) = "-" THEN Tail(fields[i]) ELSE fields[i]
    IN  [i \in 1..Len(fields) |->
            [exact |-> [j \in 1..(i - 1) |->
                          <<Stripped(j), get_model_attr(instance, Stripped(j))>>],
             field |-> Stripped(i),
             lookup |-> IF Head(fields[i]) = "-"
                        THEN (IF lookup = "gt" THEN "lt" ELSE "gt")
                        ELSE lookup,
             value |-> get_model_attr(instance, Stripped(i))]]

\* Whether a row satisfies one Q object.
Satisfies(obj, q) ==
    /\ \A j \in 1..Len(q.exact) : get_model_attr(obj, q.exact[j][1]) = q.exact[j][2]
    /\ IF q.lookup = "gt"
       THEN get_model_attr(obj, q.field) > q.value
       ELSE get_model_attr(obj, q.field) < q.value

\* bool(qs): None is false, a manager is an object without __len__ (true),
\* a query set is true when it holds a row.
Truthy(qs) ==
    CASE qs.kind = "none"     -> FALSE
      [] qs.kind = "manager"  -> TRUE
      [] qs.kind = "queryset" -> qs.members # <<>>

\* What a caller passes as qs: nothing, a manager, or <manager>.all().
NoQs == [kind |-> "none", name |-> "objects", members |-> <<>>]

ManagerQs(rows, imgs, model, name, t) ==
    [kind |-> "manager", name |-> name,
     members |-> get_query_set(ManagerClass(model, name), rows, imgs, model, t)]

AllOf(rows, imgs, model, name, t) ==
    [kind |-> "queryset", name |-> name,
     members |-> get_query_set(ManagerClass(model, name), rows, imgs, model, t)]

\* The set of results next_or_prev_in_order may return (NONE: None).
next_or_prev_in_order(rows, imgs, instance, prev, qs, t) ==
    LET model == instance.model
        used == IF ~Truthy(qs) THEN ManagerQs(rows, imgs, model, "objects", t) ELSE qs
        lookup == IF prev THEN "lt" ELSE "gt"
        qlist == q_list(instance, Ordering(model), lookup)
        Test(k) == \E i \in 1..Len(qlist) : Satisfies(Loaded(rows, k), qlist[i])
        filtered == SelectSeq(used.members, Test)
    IN  IF filtered = <<>> THEN {NONE}
        ELSE First(rows, model, filtered, prev)

\* BaseContentModel.prev / next: qs or self.__class__.objects
qs_or_objects(rows, imgs, model, qs, t) ==
    IF Truthy(qs) THEN qs ELSE ManagerQs(rows, imgs, model, "objects", t)

\* The query set a neighbour method of the instance's class hands to
\* next_or_prev_in_order.
MethodQs(rows, imgs, instance, method, qs, t) ==
    LET model == instance.model
    IN  CASE method = "neighbour" ->
                IF isinstance(instance, "BaseContentModel")
                THEN qs_or_objects(rows, imgs, model, qs, t)
                ELSE ManagerQs(rows, imgs, model, "objects", t)
          [] method = "neighbour_live" -> ManagerQs(rows, imgs, model, "live", t)
          [] method = "neighbour_featured" -> ManagerQs(rows, imgs, model, "featured", t)

\* The calls a stored record k accepts: prev()/next() on every audited type,
\* and on a content type also prev(qs)/next(qs), *_live() and *_featured().
Calls(rows, imgs, k, t) ==
    LET model == rows[k].model
    IN  {<<"neighbour", NoQs>>}
        \cup (IF "BaseContentModel" \in Mro(model)
              THEN {<<"neighbour_live", NoQs>>, <<"neighbour_featured", NoQs>>}
                   \cup {<<"neighbour", AllOf(rows, imgs, model, name, t)>> :
                           name \in {"objects", "live", "featured"}}
              ELSE {})

CallNeighbour(prev) ==
    \E k \in 1..Len(db) :
    \E c \in Calls(db, image_db, k, now) :
    \E r \in next_or_prev_in_order(db, image_db, Loaded(db, k), prev,
                 MethodQs(db, image_db, Loaded(db, k), c[1], c[2], now), now) :
        /\ isinstance(db[k], "DateAuditModel")
        /\ ret' = [op |-> IF prev THEN "prev" ELSE "next", self |-> k,
                   method |-> c[1], qs |-> [kind |-> c[2].kind, name |-> c[2].name],
                   t |-> now, val |-> r]
        /\ UNCHANGED <<now, db, image_db>>

CallNext == CallNeighbour(FALSE)

CallPrev == CallNeighbour(TRUE)

\* --------------------------------------------- ordering: saves and lookups
\* The tables of two models do not interact: a behaviour fills one of them.
MaxOrderRecords == 3

\* A save that completes within one tick of the clock.
OneInstant == {<<now, now, now>>}

OrderSaveNote ==
    /\ Len(db) < MaxOrderRecords
    /\ Objects(db, "Page") = {}
    /\ \E clk \in OneInstant : SaveAudited(NewNote, clk)

\* Pages with is_live and is_featured at their defaults.
OrderSavePage ==
    /\ Len(db) < MaxOrderRecords
    /\ Objects(db, "Note") = {}
    /\ \E clk \in OneInstant, pub \in 1..MaxDate :
          SaveAudited(NewContent("Page", pub, TRUE, FALSE), clk)

NextOrder == Tick \/ OrderSaveNote \/ OrderSavePage \/ CallNext \/ CallPrev

SpecOrder == Init /\ [][NextOrder]_vars

\* ------------------------------------------ filtered views: saves, lookups
MaxPages == 2

LookupSavePage ==
    /\ Len(db) < MaxPages
    /\ \E clk \in OneInstant, pub \in 1..MaxDate, live \in BOOLEAN, featured \in BOOLEAN :
          SaveAudited(NewContent("Page", pub, live, featured), clk)

NextLookup == Tick \/ LookupSavePage \/ CallNext \/ CallPrev

SpecLookup == Init /\ [][NextLookup]_vars

\* ------------------------------------------------- views: get_first, all
\* FeaturedManager.get_first of a manager of class cls: the set of outcomes,
\* each <<raised, record>> (raised: IndexError from the fallback).
get_first_falls_back_to_all(cls, rows, imgs, model, t) ==
    LET own == get_query_set(cls, rows, imgs, model, t)
        fallback == get_query_set("Manager", rows, imgs, model, t)
    IN  IF own # <<>>
        THEN {<<FALSE, k>> : k \in First(rows, model, own, FALSE)}
        ELSE IF fallback # <<>>
             THEN {<<FALSE, k>> : k \in First(rows, model, fallback, FALSE)}
             ELSE {<<TRUE, NONE>>}

get_first(cls, rows, imgs, model, t) ==
    LET own == get_query_set(cls, rows, imgs, model, t)
        fallback == get_query_set("LiveManager", rows, imgs, model, t)
    IN  IF own # <<>>
        THEN {<<FALSE, k>> : k \in First(rows, model, own, FALSE)}
        ELSE IF fallback # <<>>
             THEN {<<FALSE, k>> : k \in First(rows, model, fallback, FALSE)}
             ELSE {<<TRUE, NONE>>}

ContentModels == {"Page", "Article"}

\* <Model>.featured.get_first()
CallGetFirst ==
    \E model \in ContentModels :
    \E r \in get_first(ManagerClass(model, "featured"), db, image_db, model, now) :
        /\ Objects(db, model) # {}
        /\ ret' = [op |-> "get_first", model |-> model, t |-> now,
                   raised |-> r[1], val |-> r[2]]
        /\ UNCHANGED <<now, db, image_db>>

\* list(<Model>.<manager>.all()): the rows the view yields.
CallAll ==
    \E model \in ContentModels, name \in {"live", "featured"} :
        /\ Objects(db, model) # {}
        /\ ret' = [op |-> "all", model |-> model, name |-> name, t |-> now,
                   val |-> get_query_set(ManagerClass(model, name), db, image_db, model, now)]
        /\ UNCHANGED <<now, db, image_db>>

MaxViewRecords == 2
MaxImages == 2

ViewsSavePage ==
    /\ Len(db) < MaxViewRecords
    /\ Objects(db, "Article") = {}
    /\ \E clk \in OneInstant, pub \in 1..MaxDate, live \in BOOLEAN, featured \in BOOLEAN :
          SaveAudited(NewContent("Page", pub, live, featured), clk)

ViewsSaveArticle ==
    /\ Len(db) < MaxViewRecords
    /\ Objects(db, "Page") = {}
    /\ \E clk \in OneInstant, pub \in 1..MaxDate, live \in BOOLEAN, featured \in BOOLEAN :
          SaveAudited(NewContent("Article", pub, live, featured), clk)

\* An image row related to a stored article is inserted.  The order of the
\* image rows is immaterial to every query: they are kept in the order of
\* their articles.
AddImage ==
    /\ Len(image_db) < MaxImages
    /\ \E k \in Objects(db, "Article") :
          /\ \A i \in 1..Len(image_db) : image_db[i] <= k
          /\ image_db' = Append(image_db, k)
          /\ ret' = [op |-> "add_image", article |-> k]
    /\ UNCHANGED <<now, db>>

\* Time passes to the first instant of the next day (the views depend on the
\* date alone).
NextDay ==
    /\ Date(now) * TicksPerDay + 1 <= MaxTime
    /\ now' = Date(now) * TicksPerDay + 1
    /\ UNCHANGED <<db, image_db, ret>>

NextViews ==
    NextDay \/ ViewsSavePage \/ ViewsSaveArticle \/ AddImage \/ CallGetFirst \/ CallAll

SpecViews == Init /\ [][NextViews]_vars

\* ======================================================== the hierarchy
Categories == Objects(db, "Category")

HasParent(k) == db[k].parent # NONE

HasChild(k) == \E c \in Categories : db[c].parent = k

\* C4: after any sequence of saves no stored hierarchical record both has a
\* parent and has a child, and none is its own parent (at most two levels).
C4_TwoLevels ==
    \A k \in Categories : ~(HasParent(k) /\ HasChild(k)) /\ db[k].parent # k

\* The pk the saved instance had before the save of ret (NONE: a new one).
SavedPkBefore == IF ret.new THEN NONE ELSE ret.pk

GivenIsSelf == ret.given # <<>> /\ ret.given[1] = SavedPkBefore

\* C5: a save of a hierarchical record that had a stored child, or was given
\* itself as parent, stores it with no parent (the save is not rejected); a
\* save of a stored record without children and with another record (or
\* none) as parent stores the parent as given.
C5_ParentClearedOrKept ==
    ret.op = "save" =>
        /\ ret.pk \in Categories
        /\ (ret.children > 0 \/ GivenIsSelf) => db[ret.pk].parent = NONE
        /\ (~ret.new /\ ret.children = 0 /\ ~GivenIsSelf) =>
              db[ret.pk].parent = (IF ret.given = <<>> THEN NONE ELSE ret.given[1])

\* A stored record with a child was saved with a parent given, and one
\* without children was saved with another record as parent.
C5_Witness ==
    /\ ret.op = "save" /\ ret.children > 0 /\ ret.given # <<>> /\ ~GivenIsSelf
    /\ db[ret.pk].parent = NONE
    /\ \E k \in Categories : k # ret.pk /\ HasParent(k)

\* s is the chain of parent links from a root down to k.
IsChainTo(s, k) ==
    /\ Len(s) >= 1
    /\ s[Len(s)] = k
    /\ db[s[1]].parent = NONE
    /\ \A i \in 1..(Len(s) - 1) : db[s[i + 1]].parent = s[i]

\* C9: get_hierarchy() returns the ancestors from the root down to the direct
\* parent followed by the record itself; with include_self false the same
\* list without the record itself ([self] and [] for a record without parent).
C9_HierarchyIsChain ==
    (ret.op = "get_hierarchy" /\ ret.returned) =>
        IsChainTo(IF ret.include_self THEN ret.val ELSE Append(ret.val, ret.self),
                  ret.self)

\* get_hierarchy(include_self=False) was called on a record that has a parent,
\* and the ancestors were returned.
C9_Witness ==
    /\ ret.op = "get_hierarchy" /\ ret.returned
    /\ ~ret.include_self
    /\ HasParent(ret.self)
    /\ Len(ret.val) >= 1

\* The n-th ancestor of k (NONE when the links end before).
RECURSIVE Ancestor(_, _)
Ancestor(k, n) ==
    IF n = 0 \/ k = NONE THEN k ELSE Ancestor(db[k].parent, n - 1)

\* C10: in every reachable state the stored parent relation is acyclic (no
\* record is reached from itself by following parent links), and the walk of
\* get_hierarchy returns for every stored record.
C10_AcyclicWalkReturns ==
    \A k \in Categories :
        /\ \A n \in 1..Len(db) : Ancestor(k, n) # k
        /\ get_hierarchy(db, k, TRUE)[1]
        /\ get_hierarchy(db, k, FALSE)[1]

\* A record was saved with one of its own children given as parent (the link
\* that would close a cycle) and was stored without parent.
C10_Witness ==
    /\ ret.op = "save" /\ ret.children > 0 /\ ret.given # <<>>
    /\ db[ret.given[1]].parent = ret.pk
    /\ db[ret.pk].parent = NONE

\* ================================================================ audit
\* C2: the first save of a record without creation timestamp sets
\* creation_date to the time of the save (an instant between its begin and
\* its end), every later save leaves creation_date unchanged, and every save
\* sets last_updated to the time of that save, so that a resave at a later
\* time changes it.
C2_AuditDates ==
    ret.op = "save" =>
        LET saved == ret.instance
        IN  /\ isinstance(saved, "DateAuditModel")
            /\ ret.old_creation_date = NONE =>
                  (saved.creation_date >= ret.begin /\ saved.creation_date <= ret.end)
            /\ ret.old_creation_date # NONE =>
                  saved.creation_date = ret.old_creation_date
            /\ saved.last_updated >= ret.begin /\ saved.last_updated <= ret.end
            /\ (ret.old_last_updated # NONE /\ ret.begin > ret.old_last_updated) =>
                  saved.last_updated # ret.old_last_updated
            /\ ~ret.raised =>
                  /\ db[ret.pk].creation_date = saved.creation_date
                  /\ db[ret.pk].last_updated = saved.last_updated

\* A stored record was saved again at a later time: its creation_date is the
\* one of its first save and its last_updated is later.
C2_Witness ==
    /\ ret.op = "save" /\ ~ret.raised /\ ~ret.new
    /\ ret.begin > ret.old_last_updated
    /\ db[ret.pk].creation_date = ret.old_creation_date
    /\ db[ret.pk].creation_date < db[ret.pk].last_updated

\* C3: every save of a record of a concrete type derived from BaseContentModel
\* whose publication_date is empty sets publication_date to the current date
\* before the record is stored.
C3_PublicationDateSet ==
    (ret.op = "save" /\ ret.model = "Article" /\ ret.given_publication_date = NONE) =>
        /\ ~ret.raised
        /\ ret.instance.publication_date >= Date(ret.begin)
        /\ ret.instance.publication_date <= Date(ret.end)
        /\ db[ret.pk].publication_date = ret.instance.publication_date

\* ============================================================= ordering
\* The total order of the stored records of one type: the declared ordering
\* fields, each descending as declared, then ascending pk.
SortKey(k) ==
    IF isinstance(db[k], "BaseContentModel")
    THEN <<0 - db[k].publication_date, 0 - db[k].creation_date, k>>
    ELSE <<0 - db[k].creation_date, k>>

RECURSIVE LexLess(_, _)
LexLess(a, b) ==
    /\ a # <<>>
    /\ \/ Head(a) < Head(b)
       \/ Head(a) = Head(b) /\ LexLess(Tail(a), Tail(b))

Before(a, b) == LexLess(SortKey(a), SortKey(b))

\* The record of the set V next after k (before k, for prev) in the total
\* order, or NONE.
Adjacent(V, k, prev) ==
    LET beyond == {v \in V : IF prev THEN Before(v, k) ELSE Before(k, v)}
        nearest == {v \in beyond :
                      ~ \E w \in beyond : IF prev THEN Before(v, w) ELSE Before(w, v)}
    IN  IF beyond = {} THEN NONE ELSE CHOOSE v \in nearest : TRUE

IsNeighbourCall == ret.op \in {"next", "prev"}

\* C1: over the stored records of one type in the total order (declared
\* ordering fields, then ascending pk), next() of a record returns the record
\* at the next position and nothing at the last, and prev() the record at the
\* previous position and nothing at the first, ties on every declared field
\* included.
C1_NeighbourIsAdjacent ==
    (IsNeighbourCall /\ ret.method = "neighbour" /\ ret.qs.kind = "none") =>
        ret.val = Adjacent(Objects(db, db[ret.self].model), ret.self, ret.op = "prev")

\* =========================================================== the views
\* The views as the specification states them, at instant t.
LiveAt(model, t) ==
    {k \in Objects(db, model) : db[k].is_live /\ db[k].publication_date <= Date(t)}

FeaturedAt(model, t) == {k \in LiveAt(model, t) : db[k].is_featured}

HasImage(k) == \E i \in 1..Len(image_db) : image_db[i] = k

FeaturedWithImagesAt(model, t) == {k \in FeaturedAt(model, t) : HasImage(k)}

ViewAt(model, name, t) ==
    CASE name = "objects"  -> Objects(db, model)
      [] name = "live"     -> LiveAt(model, t)
      [] name = "featured" -> IF "BaseContentModelWithImages" \in Mro(model)
                              THEN FeaturedWithImagesAt(model, t)
                              ELSE FeaturedAt(model, t)

\* The view a neighbour lookup was given, at the instant of the call: the one
\* of prev_live/next_live, prev_featured/next_featured, or the caller's.
GivenView ==
    ViewAt(db[ret.self].model,
           CASE ret.method = "neighbour_live" -> "live"
             [] ret.method = "neighbour_featured" -> "featured"
             [] OTHER -> ret.qs.name,
           ret.t)

\* C8: a neighbour lookup given a filtered view returns nothing or a member of
\* that view other than the given record, and nothing whenever the view holds
\* no record strictly before/after the given record; the view may be empty,
\* and the given record need not be a member.
C8_NeighbourWithinView ==
    (IsNeighbourCall /\ ~(ret.method = "neighbour" /\ ret.qs.kind = "none")) =>
        /\ ret.val = NONE \/ (ret.val \in GivenView /\ ret.val # ret.self)
        /\ Adjacent(GivenView, ret.self, ret.op = "prev") = NONE => ret.val = NONE

\* a is before b in the declared ordering alone (records equal on every
\* declared field are in no order).
DeclaredBefore(a, b) ==
    LexLess(SubSeq(SortKey(a), 1, Len(SortKey(a)) - 1),
            SubSeq(SortKey(b), 1, Len(SortKey(b)) - 1))

IsFirstOf(v, V) == v \in V /\ ~ \E w \in V : DeclaredBefore(w, v)

\* C6: get_first returns the first record of the featured view when that view
\* is not empty, and the first record of the live view when the featured view
\* is empty and the live view is not; for FeaturedManagerWithImages the view
\* tested is featured-with-images and the fallback is still the live view.
C6_GetFirst ==
    ret.op = "get_first" =>
        LET own == ViewAt(ret.model, "featured", ret.t)
            live == LiveAt(ret.model, ret.t)
        IN  /\ own # {} => (~ret.raised /\ IsFirstOf(ret.val, own))
            /\ (own = {} /\ live # {}) => (~ret.raised /\ IsFirstOf(ret.val, live))

\* get_first of the image-bearing variant fell back to the live view although
\* a featured record existed (one without image), and returned a live record
\* that is not featured.
C6_Witness ==
    /\ ret.op = "get_first" /\ ~ret.raised
    /\ ret.model = "Article"
    /\ FeaturedAt("Article", ret.t) # {}
    /\ FeaturedWithImagesAt("Article", ret.t) = {}
    /\ ~db[ret.val].is_featured

\* C7: at every evaluation time the live view holds exactly the stored records
\* with is_live set and publication_date at or before that time, the featured
\* view exactly the live records with is_featured set, the featured-with-images
\* view exactly the featured records with an image, each record once.
C7_Views ==
    ret.op = "all" =>
        /\ Range(ret.val) = ViewAt(ret.model, ret.name, ret.t)
        /\ Len(ret.val) = Cardinality(Range(ret.val))
        /\ Range(ret.val) \subseteq LiveAt(ret.model, ret.t)
        /\ \A k \in Objects(db, ret.model) :
              (ret.name = "live" /\ db[k].is_live /\ db[k].publication_date <= Date(ret.t))
                 => k \in Range(ret.val)

\* The featured view of the image-bearing type yields a record that has two
\* images and whose publication date came after its only save.
C7_Witness ==
    /\ ret.op = "all" /\ ret.model = "Article" /\ ret.name = "featured"
    /\ \E k \in Range(ret.val) :
          /\ Cardinality({i \in 1..Len(image_db) : image_db[i] = k}) = 2
          /\ Date(db[k].last_updated) < db[k].publication_date

====
